---- MODULE Spec2Model ----
(***************************************************************************)
(* Model of scripts/transcript_service.py: the import guard, the           *)
(* identifier extractor extract_video_id and the entry point main, which   *)
(* calls the external transcript library and prints one JSON envelope.     *)
(*                                                                         *)
(* A Python str is a sequence of one-character strings.  An Optional value *)
(* is None or Some(v).  An envelope is the dict handed to json.dumps; the  *)
(* standard output is the sequence of the envelopes printed.               *)
(***************************************************************************)
EXTENDS Integers, Sequences, FiniteSets, TLC

VARIABLES
    pc,            \* position of the interpreter in the script
    libAvailable,  \* whether "from youtube_transcript_api import ..." succeeds
    argv,          \* sys.argv, argv[1] being the program name
    url,           \* main's local url (Optional)
    video_id,      \* main's local video_id (Optional)
    transcript,    \* main's local transcript: the fragments the library returned
    raised,        \* the exception in flight inside the try block (Optional)
    stdout,        \* the envelopes printed, in order
    exitStatus,    \* <<>> while running, <<status>> once the process has ended
    argcExamined,  \* history: len(sys.argv) has been evaluated
    extractCalls,  \* history: number of calls of extract_video_id
    fetchArgs      \* history: the arguments of the get_transcript calls, in order

vars == <<pc, libAvailable, argv, url, video_id, transcript, raised, stdout,
          exitStatus, argcExamined, extractCalls, fetchArgs>>

-----------------------------------------------------------------------------
(* Bounds of the model *)

\* longest run of identifier characters placed after a marker in an input
MaxRun == 12
\* most fragments the library returns in one call
MaxFrags == 3

-----------------------------------------------------------------------------
(* Python values *)

None == [some |-> FALSE]
Some(v) == [some |-> TRUE, val |-> v]

\* Python truthiness of an Optional str: None and "" are falsy
Truthy(o) == o.some /\ o.val # <<>>

\* the characters str.strip() removes that occur in the inputs
Whitespace == {" ", "\n", "\t"}

RECURSIVE lstrip(_)
lstrip(s) ==
    IF s # <<>> /\ Head(s) \in Whitespace THEN lstrip(Tail(s)) ELSE s

RECURSIVE rstrip(_)
rstrip(s) ==
    IF s # <<>> /\ s[Len(s)] \in Whitespace
    THEN rstrip(SubSeq(s, 1, Len(s) - 1))
    ELSE s

strip(s) == rstrip(lstrip(s))

-----------------------------------------------------------------------------
(* extract_video_id *)

\* the character class [a-zA-Z0-9_-]
IdAlphabet ==
    {"a","b","c","d","e","f","g","h","i","j","k","l","m",
     "n","o","p","q","r","s","t","u","v","w","x","y","z",
     "A","B","C","D","E","F","G","H","I","J","K","L","M",
     "N","O","P","Q","R","S","T","U","V","W","X","Y","Z",
     "0","1","2","3","4","5","6","7","8","9","_","-"}

\* the repetition count {11} of both patterns
IdLen == 11

\* the alternatives of (?:v=|youtu\.be/|embed/|v/|shorts/), in order
Markers ==
    << <<"v","=">>,
       <<"y","o","u","t","u",".","b","e","/">>,
       <<"e","m","b","e","d","/">>,
       <<"v","/">>,
       <<"s","h","o","r","t","s","/">> >>

\* [a-zA-Z0-9_-]{11} matched at position i of s
ClassRunAt(s, i) ==
    /\ i + IdLen - 1 <= Len(s)
    /\ \A k \in i..(i + IdLen - 1) : s[k] \in IdAlphabet

\* the literal lit matched at position i of s
LiteralAt(s, lit, i) ==
    /\ i + Len(lit) - 1 <= Len(s)
    /\ \A k \in 1..Len(lit) : s[i + k - 1] = lit[k]

\* the first pattern without its $: a prefix match
DollarAtAnywhere(s, i) == TRUE

\* $ at position i of s (the position after the last character consumed):
\* the end of the string, or just before a newline that ends the string
DollarAt(s, i) ==
    \/ i = Len(s) + 1
    \/ i = Len(s) /\ s[i] = "\n"

\* re.match(r'^[a-zA-Z0-9_-]{11}$', s) is not None
BareIdMatch(s) == ClassRunAt(s, 1) /\ DollarAt(s, IdLen + 1)

\* group(0) returned in place of group(1): the marker comes along
PatternAtGroup0(s, i) ==
    LET ok(a) == /\ LiteralAt(s, Markers[a], i)
                 /\ ClassRunAt(s, i + Len(Markers[a]))
        alts  == {a \in DOMAIN Markers : ok(a)}
    IN  IF alts = {} THEN None
        ELSE LET a == CHOOSE x \in alts : \A y \in alts : x <= y
             IN  Some(SubSeq(s, i, i + Len(Markers[a]) + IdLen - 1))

\* the URL pattern tried at position i: the first alternative that matches
\* there and is followed by the class run; group(1), or None
PatternAt(s, i) ==
    LET ok(a) == /\ LiteralAt(s, Markers[a], i)
                 /\ ClassRunAt(s, i + Len(Markers[a]))
        alts  == {a \in DOMAIN Markers : ok(a)}
    IN  IF alts = {} THEN None
        ELSE LET a == CHOOSE x \in alts : \A y \in alts : x <= y
                 b == i + Len(Markers[a])
             IN  Some(SubSeq(s, b, b + IdLen - 1))

\* the last match in place of the first
RECURSIVE SearchFromLast(_, _)
SearchFromLast(s, i) ==
    IF i > Len(s) THEN None
    ELSE LET later == SearchFromLast(s, i + 1)
         IN  IF later.some THEN later ELSE PatternAt(s, i)

\* re.search(pattern, s): the match at the smallest start position
RECURSIVE SearchFrom(_, _)
SearchFrom(s, i) ==
    IF i > Len(s) THEN None
    ELSE IF PatternAt(s, i).some THEN PatternAt(s, i)
    ELSE SearchFrom(s, i + 1)

re_search(s) == SearchFrom(s, 1)

extract_video_id(url_or_id) ==
    LET s == strip(url_or_id)
    IN  IF BareIdMatch(s) THEN Some(s) ELSE re_search(s)

-----------------------------------------------------------------------------
(* The external library: youtube_transcript_api *)

\* the text of a fragment: a str, or a value that is not a str
PyStr(v) == [type |-> "str", val |-> v]
PyNoneText == [type |-> "NoneType"]

FragTexts ==
    {PyStr(<<>>), PyStr(<<"h","i">>), PyStr(<<"a"," ","b">>), PyNoneText}

\* a fragment is a dict; a well-formed one has the key 'text'
Fragments ==
    {[text |-> t, start |-> 0] : t \in FragTexts} \cup {[start |-> 0]}

FragmentLists == UNION {[1..n -> Fragments] : n \in 0..MaxFrags}

\* the exception classes in play and their base classes
BaseClass ==
    [TranscriptsDisabled        |-> "CouldNotRetrieveTranscript",
     NoTranscriptFound          |-> "CouldNotRetrieveTranscript",
     CouldNotRetrieveTranscript |-> "Exception",
     AttributeError             |-> "Exception",
     KeyError                   |-> "Exception",
     TypeError                  |-> "Exception",
     Exception                  |-> "BaseException"]

RECURSIVE IsSubclass(_, _)
IsSubclass(c, d) ==
    \/ c = d
    \/ c \in DOMAIN BaseClass /\ IsSubclass(BaseClass[c], d)

\* the failures YouTubeTranscriptApi.get_transcript(video_id) can raise
CollaboratorErrors ==
    {[cls |-> "TranscriptsDisabled",
      msg |-> "Could not retrieve a transcript: Subtitles are disabled for this video"],
     [cls |-> "NoTranscriptFound",
      msg |-> "Could not retrieve a transcript: No transcripts were found"],
     [cls |-> "AttributeError",
      msg |-> "type object 'YouTubeTranscriptApi' has no attribute 'get_transcript'"],
     [cls |-> "Exception", msg |-> ""]}

\* str(e): a KeyError shows the repr of its key, the others their message
py_str(e) ==
    IF e.cls = "KeyError" THEN "'" \o e.msg \o "'" ELSE e.msg

-----------------------------------------------------------------------------
(* main: lines 39-44, the processing of the fragments *)

DecimalDigits == <<"0","1","2","3","4","5","6","7","8","9">>

\* a separator after every item, the last one included
RECURSIVE join_trailing(_, _)
join_trailing(sep, items) ==
    IF items = <<>> THEN <<>>
    ELSE items[1] \o sep \o join_trailing(sep, Tail(items))

\* sep.join(items) for items that are all str
RECURSIVE join(_, _)
join(sep, items) ==
    IF items = <<>> THEN <<>>
    ELSE IF Len(items) = 1 THEN items[1]
    ELSE items[1] \o sep \o join(sep, Tail(items))

\* ' '.join([x['text'] for x in transcript]): the text, or the exception raised
JoinTexts(frags) ==
    LET noKey  == {i \in DOMAIN frags : "text" \notin DOMAIN frags[i]}
        notStr == {i \in DOMAIN frags : frags[i].text.type # "str"}
    IN  IF noKey # {}
        THEN [ok |-> FALSE, exc |-> [cls |-> "KeyError", msg |-> "text"]]
        ELSE IF notStr # {}
        THEN LET i == CHOOSE x \in notStr : \A y \in notStr : x <= y
             IN  [ok |-> FALSE,
                  exc |-> [cls |-> "TypeError",
                           msg |-> "sequence item " \o DecimalDigits[i]
                                   \o ": expected str instance, "
                                   \o frags[i].text.type \o " found"]]
        ELSE [ok |-> TRUE,
              text |-> join(<<" ">>, [i \in DOMAIN frags |-> frags[i].text.val])]

-----------------------------------------------------------------------------
(* The envelopes handed to json.dumps *)

Success(text) ==
    [success |-> TRUE, transcript |-> text, method |-> "youtube-transcript-api"]

Failure(message) == [success |-> FALSE, error |-> message]

NotInstalledMsg == "youtube-transcript-api not installed"
NoArgMsg == "No video URL or ID provided"
InvalidMsg == "Invalid YouTube URL or ID"
DisabledMsg == "Transcript is disabled on this video"

\* the general clause narrowed to the library's own exceptions
HandlerNarrow(e) ==
    IF IsSubclass(e.cls, "TranscriptsDisabled") THEN "disabled"
    ELSE IF IsSubclass(e.cls, "CouldNotRetrieveTranscript") THEN "generic"
    ELSE "uncaught"

\* the general clause written first: it takes every exception
HandlerGenericFirst(e) ==
    IF IsSubclass(e.cls, "Exception") THEN "generic"
    ELSE IF IsSubclass(e.cls, "TranscriptsDisabled") THEN "disabled"
    ELSE "uncaught"

\* which except clause of main's try statement takes the exception e
Handler(e) ==
    IF IsSubclass(e.cls, "TranscriptsDisabled") THEN "disabled"
    ELSE IF IsSubclass(e.cls, "Exception") THEN "generic"
    ELSE "uncaught"

-----------------------------------------------------------------------------
(* The command lines the model runs the script on *)

ProgName == <<"t","s",".","p","y">>

IdSample1 == <<"d","Q","w","4","w","9","W","g","X","c","Q","_","-","7">>
IdSample2 == <<"A","1","b","2","-","C","3","d","4","v","E","5","_","6">>

\* the first n characters of a sample, repeated when n exceeds its length
Run(sample, n) == [j \in 1..n |-> sample[((j - 1) % Len(sample)) + 1]]

\* run lengths: none, one, and those around the identifier length
RunLens == {0, 1} \cup ((IdLen - 1)..MaxRun)

MarkerChoices == {<<>>} \cup {Markers[a] : a \in DOMAIN Markers}

\* an optional marker followed by a run of identifier characters
Segments(sample) == {m \o Run(sample, n) : m \in MarkerChoices, n \in RunLens}

LeftPads == {<<>>, <<" ">>}
RightPads == {<<>>, <<"\n">>, <<" ", "\t">>}
Prefixes == {<<>>, <<"x">>}
Separators == {<<>>, <<"/">>, <<" ">>}

\* the arguments extract_video_id is exercised on: two segments
ExtractInputs ==
    {l \o p \o s1 \o sep \o s2 \o r :
        l \in LeftPads, p \in Prefixes, s1 \in Segments(IdSample1),
        sep \in Separators, s2 \in Segments(IdSample2), r \in RightPads}

\* the arguments whole runs of the script are exercised on: one segment
MainInputs ==
    {l \o s1 \o r : l \in LeftPads, s1 \in Segments(IdSample1), r \in RightPads}

Argvs ==
    {<<ProgName>>}
        \cup {<<ProgName, a>> : a \in MainInputs}
        \cup {<<ProgName, a, <<"-","v">> >> : a \in {<<>>, Run(IdSample1, IdLen)}}

-----------------------------------------------------------------------------
(* The script, statement by statement *)

Init ==
    /\ pc = "import"
    /\ libAvailable \in BOOLEAN
    /\ argv \in Argvs
    /\ url = None
    /\ video_id = None
    /\ transcript = None
    /\ raised = None
    /\ stdout = <<>>
    /\ exitStatus = <<>>
    /\ argcExamined = FALSE
    /\ extractCalls = 0
    /\ fetchArgs = <<>>

\* print(json.dumps(envelope)) followed by the end of the process
PrintAndExit(envelope, status) ==
    /\ stdout' = Append(stdout, envelope)
    /\ exitStatus' = <<status>>
    /\ pc' = "exited"

\* lines 6-7: the import succeeds
import_ok ==
    /\ pc = "import"
    /\ libAvailable
    /\ pc' = "main"
    /\ UNCHANGED <<libAvailable, argv, url, video_id, transcript, raised,
                   stdout, exitStatus, argcExamined, extractCalls, fetchArgs>>

\* the import guard ending the process with status 0
import_error_status0 ==
    /\ pc = "import"
    /\ ~libAvailable
    /\ PrintAndExit(Failure(NotInstalledMsg), 0)
    /\ UNCHANGED <<libAvailable, argv, url, video_id, transcript, raised,
                   argcExamined, extractCalls, fetchArgs>>

\* the import guard without its sys.exit: the script goes on to main
import_error_no_exit ==
    /\ pc = "import"
    /\ ~libAvailable
    /\ stdout' = Append(stdout, Failure(NotInstalledMsg))
    /\ pc' = "main"
    /\ UNCHANGED <<libAvailable, argv, url, video_id, transcript, raised,
                   exitStatus, argcExamined, extractCalls, fetchArgs>>

\* lines 8-10: ImportError, print and sys.exit(1)
import_error ==
    /\ pc = "import"
    /\ ~libAvailable
    /\ PrintAndExit(Failure(NotInstalledMsg), 1)
    /\ UNCHANGED <<libAvailable, argv, url, video_id, transcript, raised,
                   argcExamined, extractCalls, fetchArgs>>

\* the no-argument branch without its return: sys.argv[1] then raises
\* IndexError outside any try statement
main_no_arg_no_return ==
    /\ pc = "main"
    /\ argcExamined' = TRUE
    /\ Len(argv) < 2
    /\ stdout' = Append(stdout, Failure(NoArgMsg))
    /\ exitStatus' = <<1>>
    /\ pc' = "exited"
    /\ UNCHANGED <<libAvailable, argv, url, video_id, transcript, raised,
                   extractCalls, fetchArgs>>

\* lines 29-31: no argument
main_no_arg ==
    /\ pc = "main"
    /\ argcExamined' = TRUE
    /\ Len(argv) < 2
    /\ PrintAndExit(Failure(NoArgMsg), 0)
    /\ UNCHANGED <<libAvailable, argv, url, video_id, transcript, raised,
                   extractCalls, fetchArgs>>

\* lines 29, 32-33: url = sys.argv[1]; video_id = extract_video_id(url)
main_extract ==
    /\ pc = "main"
    /\ argcExamined' = TRUE
    /\ ~(Len(argv) < 2)
    /\ url' = Some(argv[2])
    /\ video_id' = extract_video_id(argv[2])
    /\ extractCalls' = extractCalls + 1
    /\ pc' = "check"
    /\ UNCHANGED <<libAvailable, argv, transcript, raised, stdout, exitStatus,
                   fetchArgs>>

\* the invalid-identifier branch returning without printing
main_invalid_silent ==
    /\ pc = "check"
    /\ ~Truthy(video_id)
    /\ exitStatus' = <<0>>
    /\ pc' = "exited"
    /\ UNCHANGED <<libAvailable, argv, url, video_id, transcript, raised,
                   stdout, argcExamined, extractCalls, fetchArgs>>

\* lines 34-36: no identifier
main_invalid ==
    /\ pc = "check"
    /\ ~Truthy(video_id)
    /\ PrintAndExit(Failure(InvalidMsg), 0)
    /\ UNCHANGED <<libAvailable, argv, url, video_id, transcript, raised,
                   argcExamined, extractCalls, fetchArgs>>

\* line 38: get_transcript(video_id) returns the fragments
get_transcript_returns ==
    /\ pc = "check"
    /\ Truthy(video_id)
    /\ \E frags \in FragmentLists : transcript' = Some(frags)
    /\ fetchArgs' = Append(fetchArgs, video_id.val)
    /\ pc' = "join"
    /\ UNCHANGED <<libAvailable, argv, url, video_id, raised, stdout,
                   exitStatus, argcExamined, extractCalls>>

\* line 38: get_transcript(video_id) raises
get_transcript_raises ==
    /\ pc = "check"
    /\ Truthy(video_id)
    /\ \E e \in CollaboratorErrors : raised' = Some(e)
    /\ fetchArgs' = Append(fetchArgs, video_id.val)
    /\ pc' = "except"
    /\ UNCHANGED <<libAvailable, argv, url, video_id, transcript, stdout,
                   exitStatus, argcExamined, extractCalls>>

\* lines 39-44: join the texts and print the Success envelope, or raise
main_join ==
    /\ pc = "join"
    /\ LET r == JoinTexts(transcript.val)
       IN  IF r.ok
           THEN /\ PrintAndExit(Success(r.text), 0)
                /\ UNCHANGED raised
           ELSE /\ raised' = Some(r.exc)
                /\ pc' = "except"
                /\ UNCHANGED <<stdout, exitStatus>>
    /\ UNCHANGED <<libAvailable, argv, url, video_id, transcript,
                   argcExamined, extractCalls, fetchArgs>>

\* lines 45-48: the except clauses; an exception none of them takes ends
\* the process with a traceback on standard error and status 1
main_except ==
    /\ pc = "except"
    /\ LET h == Handler(raised.val)
       IN  IF h = "disabled" THEN PrintAndExit(Failure(DisabledMsg), 0)
           ELSE IF h = "generic"
           THEN PrintAndExit(Failure(py_str(raised.val)), 0)
           ELSE /\ exitStatus' = <<1>>
                /\ pc' = "exited"
                /\ UNCHANGED stdout
    /\ UNCHANGED <<libAvailable, argv, url, video_id, transcript, raised,
                   argcExamined, extractCalls, fetchArgs>>

Next ==
    \/ import_ok
    \/ import_error
    \/ main_no_arg
    \/ main_extract
    \/ main_invalid
    \/ get_transcript_returns
    \/ get_transcript_raises
    \/ main_join
    \/ main_except

Spec == Init /\ [][Next]_vars

\* the interpreter runs the script's statements one after the other, and a
\* call of the library returns or raises
FairSpec == Spec /\ WF_vars(Next)

-----------------------------------------------------------------------------
(* extract_video_id alone, on the larger set of arguments *)

InitExtract ==
    /\ pc = "call"
    /\ libAvailable = TRUE
    /\ argv \in {<<ProgName, a>> : a \in ExtractInputs}
    /\ url = None
    /\ video_id = None
    /\ transcript = None
    /\ raised = None
    /\ stdout = <<>>
    /\ exitStatus = <<>>
    /\ argcExamined = FALSE
    /\ extractCalls = 0
    /\ fetchArgs = <<>>

extract_call ==
    /\ pc = "call"
    /\ url' = Some(argv[2])
    /\ video_id' = extract_video_id(argv[2])
    /\ extractCalls' = extractCalls + 1
    /\ pc' = "returned"
    /\ UNCHANGED <<libAvailable, argv, transcript, raised, stdout, exitStatus,
                   argcExamined, fetchArgs>>

NextExtract == extract_call

SpecExtract == InitExtract /\ [][NextExtract]_vars

-----------------------------------------------------------------------------
(* Vocabulary of the properties, stated without the matcher's operators *)

\* s without its leading and trailing whitespace
Trimmed(s) ==
    LET keep == {k \in 1..Len(s) : s[k] \notin Whitespace}
    IN  IF keep = {} THEN <<>>
        ELSE SubSeq(s, CHOOSE a \in keep : \A b \in keep : a <= b,
                       CHOOSE a \in keep : \A b \in keep : a >= b)

AllIdChars(t) == \A k \in 1..Len(t) : t[k] \in IdAlphabet

IsIdentifier(t) == Len(t) = IdLen /\ AllIdChars(t)

\* the number of consecutive identifier characters of t from position q on
RECURSIVE IdRunLen(_, _)
IdRunLen(t, q) ==
    IF q > Len(t) \/ t[q] \notin IdAlphabet THEN 0 ELSE 1 + IdRunLen(t, q + 1)

MarkerSet == {Markers[a] : a \in DOMAIN Markers}

MarkerAt(t, p, m) ==
    p + Len(m) - 1 <= Len(t) /\ SubSeq(t, p, p + Len(m) - 1) = m

\* the occurrences <<position, marker>> followed by at least IdLen
\* identifier characters, and those followed by a run of exactly IdLen
OccAtLeast(t) ==
    {o \in (1..Len(t)) \X MarkerSet :
        MarkerAt(t, o[1], o[2]) /\ IdRunLen(t, o[1] + Len(o[2])) >= IdLen}

OccExactly(t) ==
    {o \in (1..Len(t)) \X MarkerSet :
        MarkerAt(t, o[1], o[2]) /\ IdRunLen(t, o[1] + Len(o[2])) = IdLen}

\* the IdLen characters after the leftmost occurrence of occ, or None
AfterLeftmost(t, occ) ==
    IF occ = {} THEN None
    ELSE LET o == CHOOSE x \in occ : \A y \in occ : x[1] <= y[1]
             b == o[1] + Len(o[2])
         IN  Some(SubSeq(t, b, b + IdLen - 1))

Arg == argv[2]

Exited == pc = "exited"

-----------------------------------------------------------------------------
(* Properties of extract_video_id, under SpecExtract *)

\* C3: on an argument that, trimmed, consists of identifier characters only,
\* extract_video_id returns the trimmed argument when its length is exactly
\* IdLen and None for every other length.
C3_BareIdIsFullMatch ==
    (pc = "returned" /\ AllIdChars(Trimmed(Arg)))
        => video_id = IF Len(Trimmed(Arg)) = IdLen
                      THEN Some(Trimmed(Arg))
                      ELSE None

\* an argument of IdLen + 1 identifier characters inside whitespace: None
C3_Witness ==
    /\ pc = "returned"
    /\ AllIdChars(Trimmed(Arg))
    /\ Len(Trimmed(Arg)) = IdLen + 1
    /\ Len(Arg) > Len(Trimmed(Arg))
    /\ video_id = None

\* C4 as amended: when the trimmed argument is not a bare identifier,
\* extract_video_id returns the IdLen characters after the leftmost marker
\* occurrence that is followed by at least IdLen identifier characters (a
\* longer run counts too), and None when there is no such occurrence.
C4_LeftmostMarkerAtLeast ==
    (pc = "returned" /\ ~IsIdentifier(Trimmed(Arg)))
        => video_id = AfterLeftmost(Trimmed(Arg), OccAtLeast(Trimmed(Arg)))

\* C4 as stated: only an occurrence followed by a run of exactly IdLen
\* identifier characters, not a longer one, yields an identifier.
C4_Original_ExactlyEleven ==
    (pc = "returned" /\ ~IsIdentifier(Trimmed(Arg)))
        => video_id = AfterLeftmost(Trimmed(Arg), OccExactly(Trimmed(Arg)))

\* two occurrences, the leftmost followed by a run longer than IdLen, and
\* different identifiers after them: the leftmost one's is returned
C4_Witness ==
    /\ pc = "returned"
    /\ ~IsIdentifier(Trimmed(Arg))
    /\ Cardinality(OccAtLeast(Trimmed(Arg))) >= 2
    /\ \E o \in OccAtLeast(Trimmed(Arg)) :
          /\ \A y \in OccAtLeast(Trimmed(Arg)) : o[1] <= y[1]
          /\ IdRunLen(Trimmed(Arg), o[1] + Len(o[2])) > IdLen
          /\ \E y \in OccAtLeast(Trimmed(Arg)) :
                AfterLeftmost(Trimmed(Arg), {y}) # AfterLeftmost(Trimmed(Arg), {o})
    /\ video_id = AfterLeftmost(Trimmed(Arg), OccAtLeast(Trimmed(Arg)))

-----------------------------------------------------------------------------
(* Properties of whole runs of the script *)

FetchFailed == raised.some /\ ~transcript.some
ProcessingFailed == raised.some /\ transcript.some

\* C1: whichever branch a run takes, it writes exactly one envelope to the
\* standard output, never none and never two, and the process ends right
\* after writing it; every run ends.
C1_ExactlyOneEnvelope ==
    /\ [](Len(stdout) <= 1)
    /\ [](Exited => Len(stdout) = 1)
    /\ [](stdout # <<>> => Exited)
    /\ <>Exited

\* a run that ended after a failure of the library, with its one envelope
C1_Witness ==
    /\ Exited
    /\ FetchFailed
    /\ Len(stdout) = 1
    /\ ~stdout[1].success

\* C2: when the call of the library or the processing of its fragments
\* fails, the run ends with exactly a Failure envelope whose error is a
\* string, with exit status 0, and no Success envelope is ever printed.
C2_FailuresBecomeEnvelopes ==
    raised.some =>
        /\ \A k \in 1..Len(stdout) : ~stdout[k].success
        /\ Exited =>
              /\ Len(stdout) = 1
              /\ DOMAIN stdout[1] = {"success", "error"}
              /\ stdout[1].error \in STRING
              /\ exitStatus = <<0>>

\* a run whose processing of the fragments raised KeyError
C2_Witness ==
    /\ Exited
    /\ ProcessingFailed
    /\ raised.val.cls = "KeyError"
    /\ stdout = <<Failure("'text'")>>
    /\ exitStatus = <<0>>

\* C5: the exit status is 1 exactly when the library is missing at import
\* time, and 0 in every other run.
C5_ExitStatus ==
    Exited =>
        /\ exitStatus = <<1>> <=> ~libAvailable
        /\ libAvailable => exitStatus = <<0>>

\* a run with the library present that ended on an invalid identifier
C5_Witness ==
    /\ Exited
    /\ libAvailable
    /\ stdout = <<Failure(InvalidMsg)>>
    /\ exitStatus = <<0>>

\* C6: with the library missing, whatever the arguments, the run prints the
\* not-installed Failure and ends without examining the argument count,
\* calling extract_video_id or calling the library.
C6_MissingLibraryShortCircuits ==
    ~libAvailable =>
        /\ pc \in {"import", "exited"}
        /\ ~argcExamined
        /\ extractCalls = 0
        /\ fetchArgs = <<>>
        /\ Exited => stdout = <<Failure(NotInstalledMsg)>> /\ exitStatus = <<1>>

\* the library missing and a valid identifier on the command line
C6_Witness ==
    /\ ~libAvailable
    /\ Exited
    /\ Len(argv) >= 2
    /\ IsIdentifier(Trimmed(Arg))
    /\ stdout = <<Failure(NotInstalledMsg)>>

\* the fragments' texts are all present and all str
WellFormed(frags) ==
    \A i \in DOMAIN frags :
        "text" \in DOMAIN frags[i] /\ frags[i].text.type = "str"

TextOf(frags, i) == frags[i].text.val

\* where fragment i's text starts in the joined transcript, less one
RECURSIVE OffsetOf(_, _)
OffsetOf(frags, i) ==
    IF i = 1 THEN 0
    ELSE OffsetOf(frags, i - 1) + Len(TextOf(frags, i - 1)) + 1

\* t holds the texts in order, each at its place, one space between two
\* consecutive ones and nothing else
IsSpaceJoined(t, frags) ==
    LET n == Len(frags)
    IN  /\ Len(t) = IF n = 0 THEN 0
                    ELSE OffsetOf(frags, n) + Len(TextOf(frags, n))
        /\ \A i \in 1..n :
              /\ SubSeq(t, OffsetOf(frags, i) + 1,
                           OffsetOf(frags, i) + Len(TextOf(frags, i)))
                    = TextOf(frags, i)
              /\ i < n => t[OffsetOf(frags, i) + Len(TextOf(frags, i)) + 1] = " "

\* C7: when the library returns fragments, the run prints Success with the
\* method "youtube-transcript-api" and the texts joined in order with
\* exactly one space between consecutive fragments.
C7_TranscriptIsSpaceJoined ==
    (Exited /\ transcript.some /\ WellFormed(transcript.val)) =>
        /\ Len(stdout) = 1
        /\ DOMAIN stdout[1] = {"success", "transcript", "method"}
        /\ stdout[1].success
        /\ stdout[1].method = "youtube-transcript-api"
        /\ IsSpaceJoined(stdout[1].transcript, transcript.val)

\* as many fragments as the bound allows, the first two with different,
\* non-empty texts
C7_Witness ==
    /\ Exited
    /\ transcript.some
    /\ WellFormed(transcript.val)
    /\ Len(transcript.val) = MaxFrags
    /\ TextOf(transcript.val, 1) # <<>>
    /\ TextOf(transcript.val, 2) # <<>>
    /\ TextOf(transcript.val, 1) # TextOf(transcript.val, 2)
    /\ stdout[1].success

\* C8: a transcripts-disabled failure of the library yields the fixed
\* literal error, never the library's message; every other failure of the
\* library yields the library's message unchanged.
C8_FailureMapping ==
    (Exited /\ FetchFailed) =>
        stdout = <<Failure(IF raised.val.cls = "TranscriptsDisabled"
                           THEN "Transcript is disabled on this video"
                           ELSE raised.val.msg)>>

\* the library raised TranscriptsDisabled with its own message
C8_Witness ==
    /\ Exited
    /\ FetchFailed
    /\ raised.val.cls = "TranscriptsDisabled"
    /\ raised.val.msg # DisabledMsg
    /\ stdout = <<Failure(DisabledMsg)>>

\* C9: main invoked with no argument prints the no-argument Failure and
\* ends, extract_video_id and the library never having been called.
C9_NoArgument ==
    (libAvailable /\ Len(argv) = 1) =>
        /\ extractCalls = 0
        /\ fetchArgs = <<>>
        /\ pc \in {"import", "main", "exited"}
        /\ Exited => stdout = <<Failure("No video URL or ID provided")>>
                     /\ exitStatus = <<0>>

C9_Witness ==
    /\ libAvailable
    /\ Len(argv) = 1
    /\ argcExamined
    /\ Exited
    /\ stdout = <<Failure(NoArgMsg)>>

\* C10: the library is called at most once in a run, only after
\* extract_video_id returned an identifier, and with that identifier, which
\* is IdLen identifier characters; when extract_video_id returns None the run
\* prints the invalid-identifier Failure and the library is never called.
C10_SingleFetchOfAnIdentifier ==
    /\ Len(fetchArgs) <= 1
    /\ fetchArgs # <<>> =>
          /\ extractCalls = 1
          /\ video_id.some
          /\ fetchArgs[1] = video_id.val
          /\ IsIdentifier(fetchArgs[1])
    /\ (extractCalls > 0 /\ ~video_id.some) =>
          /\ fetchArgs = <<>>
          /\ Exited => stdout = <<Failure("Invalid YouTube URL or ID")>>

\* the library failed and was not called again; the identifier came from a
\* URL-shaped argument
C10_Witness ==
    /\ Exited
    /\ FetchFailed
    /\ Len(fetchArgs) = 1
    /\ IsIdentifier(fetchArgs[1])
    /\ fetchArgs[1] # Trimmed(Arg)

====
